---- MODULE Spec2Model ----
(***************************************************************************)
(* Resumind: the Puter.js capability facade (the zustand store in          *)
(* app/routes/resume.tsx) and the submission pipeline (handleAnalyze in    *)
(* app/routes/upload.tsx), as a state machine.                             *)
(*                                                                         *)
(* JavaScript runs one task at a time: an async function runs without      *)
(* interruption up to its next await.  Every action below is one such run  *)
(* of code: from a call, or from the settling of the awaited promise, up   *)
(* to the next await (or the end of the function).                         *)
(***************************************************************************)
EXTENDS Naturals, Integers, Sequences, FiniteSets, TLC

\* ------------------------------------------------------------- bounds
MaxRuns == 2            \* page instances of the upload route (each runs handleAnalyze at most once)
MaxInit == 2            \* calls of the store's init()
MaxTicks == 2           \* poll ticks observed per polling interval
MaxUiCalls == 1         \* UI callers of the store, each awaiting one facade call at a time
MaxPages == 2           \* result page instances (each runs loadResume once)

Runs == 1..MaxRuns

\* ------------------------------------------------------------- JavaScript values
Undefined == [t |-> "undefined"]
Null == [t |-> "null"]
JStr(s) == [t |-> "string", s |-> s]
JBool(b) == [t |-> "boolean", b |-> b]
JObj(o) == [t |-> "object", o |-> o]
FSItem(p) == [t |-> "FSItem", path |-> p]

\* !v of JavaScript, for the values of the model
Falsy(v) ==
    \/ v.t \in {"undefined", "null"}
    \/ v.t = "string" /\ v.s = ""
    \/ v.t = "boolean" /\ v.b = FALSE

IsThrown(v) == v.t = "throw"

\* ------------------------------------------------------------- the store's state
VARIABLES
    puter,      \* window.puter is present (the SDK script has loaded)
    store,      \* the zustand state: isLoading, error, puterReady, auth.user, auth.isAuthenticated, auth.getUser
    inflight,   \* platform (and rasterizer) calls dispatched and not yet settled
    kvStore,    \* the platform's key-value store: key -> value, for the keys that exist
    nextUuid,   \* the id generator
    runs,       \* the upload page instances and their handleAnalyze run
    authCalls,  \* the identity operations (checkAuthStatus, signIn, signOut, refreshUser), by caller
    uiCalls,    \* blob / inference / key-value operations called from outside the pipeline
    inits,      \* the calls of init(): the interval and the timer each one created
    pages       \* the result page instances and their loadResume run

vars == <<puter, store, inflight, kvStore, nextUuid, runs, authCalls, uiCalls, inits, pages>>
facadeVars == <<authCalls, uiCalls, inits, pages>>

NotAvailable == "Puter.js not available"
LoadFailed == "Puter.js failed to load within 10 seconds"

\* the object create() returns
InitialStore ==
    [ isLoading |-> TRUE,
      error |-> Null,
      puterReady |-> FALSE,
      user |-> Null,
      isAuthenticated |-> FALSE,
      getUser |-> [t |-> "get().auth.user"] ]

\* getPuter(): the handle, or null
getPuter == puter

\* an error setter that also takes readiness back
setError_resetsReady(st, msg) ==
    [st EXCEPT !.error = JStr(msg),
               !.isLoading = FALSE,
               !.user = Null,
               !.isAuthenticated = FALSE,
               !.puterReady = FALSE]

\* an error setter that leaves the session as it is
setError_keepsSession(st, msg) ==
    [st EXCEPT !.error = JStr(msg), !.isLoading = FALSE]

\* setError(msg): the store after it. auth.getUser is carried over from get().
setError(st, msg) ==
    [st EXCEPT !.error = JStr(msg),
               !.isLoading = FALSE,
               !.user = Null,
               !.isAuthenticated = FALSE]


\* ------------------------------------------------------------- the facade's wrappers
\* A platform call in flight: who awaits it, the platform function and its arguments.
Call(caller, op, arg) == [caller |-> caller, op |-> op, arg |-> arg]

\* a wrapper that returns on an absent handle without recording the error
wrap_silent(st, p, caller, op, arg) ==
    IF ~p
    THEN [store |-> st, calls |-> {}, ret |-> "undefined"]
    ELSE [store |-> st, calls |-> {Call(caller, op, arg)}, ret |-> "promise"]

\* The body shared by the blob, inference and key-value wrappers:
\*   const puter = getPuter(); if (!puter) { setError(...); return; } return puter.<op>(<arg>);
\* The result: the store after the call, the platform calls it issued, and what the
\* wrapper's promise is: resolved with undefined, or the platform's promise.
wrap(st, p, caller, op, arg) ==
    IF ~p
    THEN [store |-> setError(st, NotAvailable), calls |-> {}, ret |-> "undefined"]
    ELSE [store |-> st, calls |-> {Call(caller, op, arg)}, ret |-> "promise"]

write(st, p, caller, path, data) == wrap(st, p, caller, "fs.write", <<path, data>>)
readDir(st, p, caller, path) == wrap(st, p, caller, "fs.readdir", <<path>>)
readFile(st, p, caller, path) == wrap(st, p, caller, "fs.read", <<path>>)
upload(st, p, caller, files) == wrap(st, p, caller, "fs.upload", <<files>>)
deleteFile(st, p, caller, path) == wrap(st, p, caller, "fs.delete", <<path>>)

chat(st, p, caller, prompt, imageURL, testMode, options) ==
    wrap(st, p, caller, "ai.chat", <<prompt, imageURL, testMode, options>>)

FeedbackModel == "claude-3-7-sonnet"

\* a feedback request that leaves the document out
feedback_textOnly(st, p, caller, path, message) ==
    wrap(st, p, caller, "ai.chat",
         << << [ role |-> "user", content |-> << [type |-> "text", text |-> message] >> ] >>,
            [model |-> FeedbackModel] >>)

\* feedback(path, message): one puter.ai.chat call with one user message
feedback(st, p, caller, path, message) ==
    wrap(st, p, caller, "ai.chat",
         << << [ role |-> "user",
                 content |-> << [type |-> "file", puter_path |-> path],
                                [type |-> "text", text |-> message] >> ] >>,
            [model |-> FeedbackModel] >>)

img2txt(st, p, caller, image, testMode) == wrap(st, p, caller, "ai.img2txt", <<image, testMode>>)

getKV(st, p, caller, key) == wrap(st, p, caller, "kv.get", <<key>>)
setKV(st, p, caller, key, value) == wrap(st, p, caller, "kv.set", <<key, value>>)
deleteKV(st, p, caller, key) == wrap(st, p, caller, "kv.delete", <<key>>)
\* returnValues === undefined is replaced by false
listKV(st, p, caller, pattern, returnValues) ==
    wrap(st, p, caller, "kv.list",
         <<pattern, IF returnValues = Undefined THEN JBool(FALSE) ELSE returnValues>>)
flushKV(st, p, caller) == wrap(st, p, caller, "kv.flush", <<>>)


\* ------------------------------------------------------------- the platform and the collaborators
File(n) == [t |-> "File", name |-> n]
Blob(n) == [t |-> "Blob", of |-> n]

\* the identities the platform can report
Users == {"ann"}
PuterUser(u) == [t |-> "PuterUser", username |-> u]

\* the documents a user can pick
PdfFiles == {File(<<"cv", "pdf">>)}

\* the form's text fields (free text, may be empty)
Forms ==
    { [companyName |-> "Acme", jobTitle |-> "Engineer", jobDescription |-> "Build things"] }

\* what a rejected platform promise carries: an Error with a message, or another value
Rejections == { [t |-> "throw", isError |-> TRUE, message |-> "Network error"],
                [t |-> "throw", isError |-> FALSE, message |-> ""] }

\* the texts an inference response can carry, and JSON.parse of each
FeedbackJson == "{\"overallScore\":80}"
EmptyJson == "\"\""
NotJson == "Sorry, I cannot read this file"
FeedbackTexts == {FeedbackJson, EmptyJson, NotJson}

JSONparseText(text) ==
    CASE text = FeedbackJson -> JObj([overallScore |-> 80])
      [] text = EmptyJson -> JStr("")
      [] OTHER -> [t |-> "throw", isError |-> TRUE, message |-> "SyntaxError"]

\* message.content is a string, or an array whose first element carries the text
AIResponse(content) == [t |-> "AIResponse", message |-> [content |-> content]]
ContentString(text) == [t |-> "string", s |-> text]
ContentArray(items) == [t |-> "array", items |-> items]
AIResponses ==
    {AIResponse(ContentString(x)) : x \in FeedbackTexts}
    \cup {AIResponse(ContentArray(<<[type |-> "text", text |-> x]>>)) : x \in {FeedbackJson}}
    \cup {AIResponse(ContentArray(<<>>))}

\* JSON.stringify of the pipeline's data object: the fields in the order they were
\* written, each with its value; JSON.parse of such a text gives the object back.
RecordFields == <<"id", "resumePath", "imagePath", "companyName", "jobTitle", "jobDescription", "feedback">>
JSONstringify(d) == [i \in 1..Len(RecordFields) |-> <<RecordFields[i], d[RecordFields[i]]>>]
JSONparse(text) == [f \in {text[i][1] : i \in 1..Len(text)} |->
                        text[CHOOSE i \in 1..Len(text) : text[i][1] = f][2] ]

\* convertPdfToImage(file): an image file, or none
ImageOf(f) == File(<<f.name[1], "png">>)
ConversionResult(file) == [t |-> "PdfConversionResult", file |-> file]

\* generateUUID(): a value no earlier call returned
generateUUID(n) == n

\* prepareInstructions({jobTitle, jobDescription}): the instruction text
prepareInstructions(jobTitle, jobDescription) == <<"instructions", jobTitle, jobDescription>>

\* a key that leaves the id out
ResumeKey_noId(uuid) == <<"resume:", 0>>
\* the key of the first id, whatever the id
ResumeKey_first(uuid) == <<"resume:", 1>>
\* `resume:${uuid}`
ResumeKey(uuid) == <<"resume:", uuid>>

KvHas(kv, k) == k \in DOMAIN kv
KvPut(kv, k, v) == (k :> v) @@ kv
KvDel(kv, k) == [x \in (DOMAIN kv) \ {k} |-> kv[x]]
EmptyKv == [x \in {} |-> Undefined]

\* the path the platform stores an uploaded file under
UploadPath(file) == IF file.t = "File" THEN file.name ELSE <<"upload">>

\* How the platform (or the rasterizer) can settle call c when the key-value store
\* is kv: the value the promise settles with (a "throw" value: it rejects) and the
\* key-value store afterwards. A set, delete or flush that does not resolve with
\* true, and every rejected call, leaves the key-value store as it was. The calls
\* declared Promise<void> (fs.delete, auth.signIn, auth.signOut) resolve with
\* undefined.
Settlements(c, kv) ==
    LET same(vals) == {[val |-> v, kv |-> kv] : v \in vals} IN
    CASE c.op = "fs.upload" ->
            same({FSItem(UploadPath(c.arg[1][1])), Undefined} \cup Rejections)
      [] c.op = "convertPdfToImage" ->
            same({ConversionResult(ImageOf(c.arg[1])), ConversionResult(Null)})
      [] c.op = "kv.set" ->
            {[val |-> JBool(TRUE), kv |-> KvPut(kv, c.arg[1], c.arg[2])]}
            \cup same({JBool(FALSE)} \cup Rejections)
      [] c.op = "kv.get" ->
            same({IF KvHas(kv, c.arg[1]) THEN [t |-> "text", text |-> kv[c.arg[1]]] ELSE Null}
                 \cup Rejections)
      [] c.op = "kv.delete" ->
            {[val |-> JBool(TRUE), kv |-> KvDel(kv, c.arg[1])]}
            \cup same({JBool(FALSE)} \cup Rejections)
      [] c.op = "kv.flush" ->
            {[val |-> JBool(TRUE), kv |-> EmptyKv]}
            \cup same({JBool(FALSE)} \cup Rejections)
      [] c.op = "kv.list" ->
            same({[t |-> "array", items |-> DOMAIN kv]} \cup Rejections)
      [] c.op = "ai.chat" ->
            same(AIResponses \cup {Undefined} \cup Rejections)
      [] c.op = "auth.isSignedIn" ->
            same({JBool(TRUE), JBool(FALSE)} \cup Rejections)
      [] c.op = "auth.getUser" ->
            same({PuterUser(u) : u \in Users} \cup Rejections)
      [] c.op = "fs.read" ->
            same({Blob(c.arg[1])} \cup Rejections)
      [] c.op = "fs.write" ->
            same({File(c.arg[1]), Undefined} \cup Rejections)
      [] c.op = "fs.readdir" ->
            same({[t |-> "FSItem[]", items |-> <<FSItem(c.arg[1])>>], Undefined} \cup Rejections)
      [] c.op = "ai.img2txt" ->
            same({JStr("text of the image")} \cup Rejections)
      [] OTHER ->
            same({Undefined} \cup Rejections)


\* What an await of `caller` can resume with: undefined when the wrapper had already
\* returned (handle absent), else a settlement of its platform call.
Awaited(caller, awaiting) ==
    IF awaiting = "undefined"
    THEN {[val |-> Undefined, infl |-> inflight, kv |-> kvStore]}
    ELSE UNION { {[val |-> s.val, infl |-> inflight \ {c}, kv |-> s.kv] : s \in Settlements(c, kvStore)}
                 : c \in {x \in inflight : x.caller = caller} }

\* ------------------------------------------------------------- the upload page and handleAnalyze
StatusUploading == "Uploading the file..."
StatusConverting == "Converting to image..."
StatusUploadingImage == "Uploading the image..."
StatusPreparing == "Preparing data..."
StatusAnalyzing == "Analyzing..."
StatusComplete == "Analysis complete, redirecting..."
ErrorUpload == "Error: Failed to upload file"
ErrorConvert == "Error: Failed to convert PDF to image"
ErrorUploadImage_copied == "Error: Failed to upload file"
ErrorUploadImage == "Error: Failed to upload image"
ErrorAnalyze == "Error: Failed to analyze resume"

\* a freshly rendered upload page: useState(false), useState(''), useState(null)
InitialRun ==
    [ isProcessing |-> FALSE,
      statusText |-> "",
      file |-> Null,
      pc |-> "idle",
      awaiting |-> "none",
      form |-> [companyName |-> "", jobTitle |-> "", jobDescription |-> ""],
      uploadedFile |-> Undefined,
      imageFile |-> Undefined,
      uploadedImage |-> Undefined,
      uuid |-> 0,
      data |-> Undefined,
      feedback |-> Undefined,
      statusLog |-> <<>>,      \* every setStatusText of the run, in order
      facadeCalls |-> <<>>,    \* every call the run made (facade or rasterizer), in order
      kvResults |-> <<>>,      \* what each kv.set of the run returned
      navigated |-> <<>>,      \* the argument of navigate()
      isDragActive |-> FALSE,  \* the dropzone of the uploader has a drag over it
      dropped |-> <<>> ]       \* the files the dropzone accepted at the last drop

RunCaller(r) == <<"run", r>>

setStatusText(run, text) ==
    [run EXCEPT !.statusText = text, !.statusLog = Append(@, text)]

\* the run suspends on the promise of a facade call (w: the wrapper's result)
AwaitFacade(run, w, op, pc) ==
    [run EXCEPT !.pc = pc, !.awaiting = w.ret, !.facadeCalls = Append(@, op)]

\* an error status that is set without returning
ReturnError_continues(run, text) == setStatusText(run, text)

\* return setStatusText('Error: ...')
ReturnError(run, text) ==
    [setStatusText(run, text) EXCEPT !.pc = "returned", !.awaiting = "none"]

\* an awaited promise rejected, or a statement threw: handleAnalyze has no try/catch,
\* its promise rejects and nothing handles it
Throws(run) == [run EXCEPT !.pc = "threw", !.awaiting = "none"]

\* handleFileSelect(file): setFile(file)
handleFileSelect(r, f) ==
    /\ ~runs[r].isProcessing
    /\ runs' = [runs EXCEPT ![r].file = f]
    /\ UNCHANGED <<puter, store, inflight, kvStore, nextUuid, facadeVars>>

\* the files a user can drop on the uploader
DropFiles == PdfFiles \cup {File(<<"letter", "pdf">>)}
\* what one drop can carry: no accepted file, one, or two
Drops == {<<>>} \cup {<<f>> : f \in DropFiles} \cup {<<f, g>> : f, g \in DropFiles}

\* a drag enters the dropzone of the uploader
dragEnter(r) ==
    /\ ~runs[r].isProcessing
    /\ ~runs[r].isDragActive
    /\ runs' = [runs EXCEPT ![r].isDragActive = TRUE]
    /\ UNCHANGED <<puter, store, inflight, kvStore, nextUuid, facadeVars>>

\* the drag leaves the dropzone
dragLeave(r) ==
    /\ ~runs[r].isProcessing
    /\ runs[r].isDragActive
    /\ runs' = [runs EXCEPT ![r].isDragActive = FALSE]
    /\ UNCHANGED <<puter, store, inflight, kvStore, nextUuid, facadeVars>>

\* the user drops files on the uploader: useDropzone() was given no options, so the
\* dropzone has no onDrop to call and the page's handleFileSelect is not called
dropFiles(r, acceptedFiles) ==
    /\ ~runs[r].isProcessing
    /\ runs' = [runs EXCEPT ![r].isDragActive = FALSE, ![r].dropped = acceptedFiles]
    /\ UNCHANGED <<puter, store, inflight, kvStore, nextUuid, facadeVars>>

\* if (!uploadedFile)
UploadFailed(uploadedFile) == Falsy(uploadedFile)
\* a conversion result that is never found to have failed
ConversionFailed_unchecked(imageFile) == FALSE
\* if (!imageFile.file)
ConversionFailed(imageFile) == Falsy(imageFile.file)
\* if (!uploadedImage)
ImageUploadFailed(uploadedImage) == Falsy(uploadedImage)
\* if (!feedback)
AnalysisFailed(fb) == Falsy(fb)

\* handleSubmit, and handleAnalyze up to `await fs.upload([file])`
handleSubmit(r, form) ==
    /\ ~runs[r].isProcessing          \* the form is rendered only while !isProcessing
    /\ IF Falsy(runs[r].file)
       THEN UNCHANGED vars            \* if (!file) return;
       ELSE LET w == upload(store, getPuter, RunCaller(r), <<runs[r].file>>)
                started == [setStatusText(runs[r], StatusUploading)
                              EXCEPT !.isProcessing = TRUE, !.form = form]
            IN /\ runs' = [runs EXCEPT ![r] = AwaitFacade(started, w, "fs.upload", "upload")]
               /\ store' = w.store
               /\ inflight' = inflight \cup w.calls
               /\ UNCHANGED <<puter, kvStore, nextUuid, facadeVars>>

\* from the settling of fs.upload([file]) to `await convertPdfToImage(file)`
AfterUpload(r) ==
    /\ runs[r].pc = "upload"
    /\ \E a \in Awaited(RunCaller(r), runs[r].awaiting) :
        /\ kvStore' = a.kv
        /\ store' = store
        /\ IF IsThrown(a.val)
           THEN /\ runs' = [runs EXCEPT ![r] = Throws(@)]
                /\ inflight' = a.infl
           ELSE IF UploadFailed(a.val)
           THEN /\ runs' = [runs EXCEPT ![r] = ReturnError([@ EXCEPT !.uploadedFile = a.val], ErrorUpload)]
                /\ inflight' = a.infl
           ELSE /\ runs' = [runs EXCEPT ![r] =
                              [setStatusText([@ EXCEPT !.uploadedFile = a.val], StatusConverting)
                                 EXCEPT !.pc = "convert", !.awaiting = "promise",
                                        !.facadeCalls = Append(@, "convertPdfToImage")]]
                /\ inflight' = a.infl \cup {Call(RunCaller(r), "convertPdfToImage", <<runs[r].file>>)}
    /\ UNCHANGED <<puter, nextUuid, facadeVars>>

\* from the settling of convertPdfToImage(file) to `await fs.upload([imageFile.file])`
AfterConvert(r) ==
    /\ runs[r].pc = "convert"
    /\ \E a \in Awaited(RunCaller(r), runs[r].awaiting) :
        /\ kvStore' = a.kv
        /\ IF IsThrown(a.val)
           THEN /\ runs' = [runs EXCEPT ![r] = Throws(@)]
                /\ inflight' = a.infl
                /\ store' = store
           ELSE IF ConversionFailed(a.val)
           THEN /\ runs' = [runs EXCEPT ![r] = ReturnError([@ EXCEPT !.imageFile = a.val], ErrorConvert)]
                /\ inflight' = a.infl
                /\ store' = store
           ELSE LET w == upload(store, getPuter, RunCaller(r), <<a.val.file>>)
                    shown == setStatusText([runs[r] EXCEPT !.imageFile = a.val], StatusUploadingImage)
                IN /\ runs' = [runs EXCEPT ![r] = AwaitFacade(shown, w, "fs.upload", "uploadImage")]
                   /\ inflight' = a.infl \cup w.calls
                   /\ store' = w.store
    /\ UNCHANGED <<puter, nextUuid, facadeVars>>


\* x.path throws a TypeError when x is undefined
HasPath(x) == x.t = "FSItem"

\* a data object with the two paths exchanged
NewData_swapped(run, uuid) ==
    [ id |-> uuid,
      resumePath |-> run.uploadedImage.path,
      imagePath |-> run.uploadedFile.path,
      companyName |-> run.form.companyName,
      jobTitle |-> run.form.jobTitle,
      jobDescription |-> run.form.jobDescription,
      feedback |-> JStr("") ]

\* the data object of lines 66-74, its feedback still ''
NewData(run, uuid) ==
    [ id |-> uuid,
      resumePath |-> run.uploadedFile.path,
      imagePath |-> run.uploadedImage.path,
      companyName |-> run.form.companyName,
      jobTitle |-> run.form.jobTitle,
      jobDescription |-> run.form.jobDescription,
      feedback |-> JStr("") ]

\* from the settling of fs.upload([imageFile.file]) to the first `await kv.set(...)`
AfterUploadImage(r) ==
    /\ runs[r].pc = "uploadImage"
    /\ \E a \in Awaited(RunCaller(r), runs[r].awaiting) :
        /\ kvStore' = a.kv
        /\ IF IsThrown(a.val)
           THEN /\ runs' = [runs EXCEPT ![r] = Throws(@)]
                /\ UNCHANGED <<store, nextUuid>>
                /\ inflight' = a.infl
           ELSE IF ImageUploadFailed(a.val)
           THEN /\ runs' = [runs EXCEPT ![r] = ReturnError([@ EXCEPT !.uploadedImage = a.val], ErrorUploadImage)]
                /\ UNCHANGED <<store, nextUuid>>
                /\ inflight' = a.infl
           ELSE LET uuid == generateUUID(nextUuid)
                    shown == [setStatusText([runs[r] EXCEPT !.uploadedImage = a.val], StatusPreparing)
                                EXCEPT !.uuid = uuid]
                IN /\ nextUuid' = nextUuid + 1
                   /\ IF ~(HasPath(shown.uploadedFile) /\ HasPath(shown.uploadedImage))
                      THEN /\ runs' = [runs EXCEPT ![r] = Throws(shown)]
                           /\ store' = store
                           /\ inflight' = a.infl
                      ELSE LET data == NewData(shown, uuid)
                               w == setKV(store, getPuter, RunCaller(r), ResumeKey(uuid), JSONstringify(data))
                           IN /\ runs' = [runs EXCEPT ![r] =
                                            AwaitFacade([shown EXCEPT !.data = data], w, "kv.set", "provisionalSet")]
                              /\ store' = w.store
                              /\ inflight' = a.infl \cup w.calls
    /\ UNCHANGED <<puter, facadeVars>>

\* from the settling of the first kv.set to `await ai.feedback(...)`:
\* the value kv.set resolved with is not looked at
AfterProvisionalSet(r) ==
    /\ runs[r].pc = "provisionalSet"
    /\ \E a \in Awaited(RunCaller(r), runs[r].awaiting) :
        /\ kvStore' = a.kv
        /\ IF IsThrown(a.val)
           THEN /\ runs' = [runs EXCEPT ![r] = Throws(@)]
                /\ store' = store
                /\ inflight' = a.infl
           ELSE LET shown == setStatusText([runs[r] EXCEPT !.kvResults = Append(@, a.val)], StatusAnalyzing)
                    w == feedback(store, getPuter, RunCaller(r), shown.uploadedFile.path,
                                  prepareInstructions(shown.form.jobTitle, shown.form.jobDescription))
                IN /\ runs' = [runs EXCEPT ![r] = AwaitFacade(shown, w, "ai.feedback", "feedback")]
                   /\ store' = w.store
                   /\ inflight' = a.infl \cup w.calls
    /\ UNCHANGED <<puter, nextUuid, facadeVars>>

\* typeof content === 'string' ? content : content[0].text
\* (content[0] of an empty array is undefined, and .text of it throws)
FeedbackText(fb) ==
    LET content == fb.message.content IN
    IF fb.t # "AIResponse" THEN [t |-> "throw", isError |-> TRUE, message |-> "TypeError"]
    ELSE IF content.t = "string" THEN ContentString(content.s)
    ELSE IF Len(content.items) = 0
         THEN [t |-> "throw", isError |-> TRUE, message |-> "TypeError"]
         ELSE ContentString(content.items[1].text)

\* JSON.parse(feedbackText), or what the extraction threw
ParsedFeedback(fb) ==
    LET text == FeedbackText(fb) IN
    IF IsThrown(text) THEN text ELSE JSONparseText(text.s)

\* from the settling of ai.feedback to the second `await kv.set(...)`
AfterFeedback(r) ==
    /\ runs[r].pc = "feedback"
    /\ \E a \in Awaited(RunCaller(r), runs[r].awaiting) :
        /\ kvStore' = a.kv
        /\ IF IsThrown(a.val)
           THEN /\ runs' = [runs EXCEPT ![r] = Throws(@)]
                /\ store' = store
                /\ inflight' = a.infl
           ELSE IF AnalysisFailed(a.val)
           THEN /\ runs' = [runs EXCEPT ![r] = ReturnError([@ EXCEPT !.feedback = a.val], ErrorAnalyze)]
                /\ store' = store
                /\ inflight' = a.infl
           ELSE IF IsThrown(ParsedFeedback(a.val))
           THEN /\ runs' = [runs EXCEPT ![r] = Throws([@ EXCEPT !.feedback = a.val])]
                /\ store' = store
                /\ inflight' = a.infl
           ELSE LET data == [runs[r].data EXCEPT !.feedback = ParsedFeedback(a.val)]
                    w == setKV(store, getPuter, RunCaller(r), ResumeKey(runs[r].uuid), JSONstringify(data))
                IN /\ runs' = [runs EXCEPT ![r] =
                                 AwaitFacade([@ EXCEPT !.feedback = a.val, !.data = data], w, "kv.set", "finalSet")]
                   /\ store' = w.store
                   /\ inflight' = a.infl \cup w.calls
    /\ UNCHANGED <<puter, nextUuid, facadeVars>>

\* from the settling of the second kv.set to the end: the status and navigate()
AfterFinalSet(r) ==
    /\ runs[r].pc = "finalSet"
    /\ \E a \in Awaited(RunCaller(r), runs[r].awaiting) :
        /\ kvStore' = a.kv
        /\ inflight' = a.infl
        /\ IF IsThrown(a.val)
           THEN runs' = [runs EXCEPT ![r] = Throws(@)]
           ELSE runs' = [runs EXCEPT ![r] =
                           [setStatusText([@ EXCEPT !.kvResults = Append(@, a.val)], StatusComplete)
                              EXCEPT !.pc = "returned", !.awaiting = "none",
                                     !.navigated = <<"/resume/", runs[r].uuid>>]]
    /\ UNCHANGED <<puter, store, nextUuid, facadeVars>>

\* the SDK script finishes loading: window.puter appears
PuterLoads ==
    /\ ~puter
    /\ puter' = TRUE
    /\ UNCHANGED <<store, inflight, kvStore, nextUuid, runs, pages, facadeVars>>

\* ------------------------------------------------------------- identity operations
InitCallers == {<<"init", h>> : h \in 1..MaxInit}
UiCallers == 1..MaxUiCalls
UiAuthCaller(i) == <<"ui", i>>
UiAuthCallers == {UiAuthCaller(i) : i \in UiCallers}
AuthCallers == InitCallers \cup UiAuthCallers

\* an identity operation: which one, the await it is suspended on ("free": none was
\* called, "done": its promise has resolved), the value it resolved with, and the
\* values its awaits have resumed with so far
FreeAuthCall == [op |-> "none", pc |-> "free", ret |-> Undefined, got |-> <<>>]

\* a call of the UI: the operation while it is pending, whether its promise is pending,
\* resolved or rejected, what it awaits, and the kind of value it settled with
FreeUiCall == [op |-> "none", state |-> "free", awaiting |-> "none", result |-> "none"]

\* UI caller i awaits nothing
UiIdle(i) == authCalls[UiAuthCaller(i)].pc \in {"free", "done"} /\ uiCalls[i].state # "pending"

\* err instanceof Error ? err.message : <fallback>
ErrorMessage(err, fallback) == IF err.isError THEN err.message ELSE fallback

\* a start that leaves an earlier error in place
setLoading_keepsError(st) == [st EXCEPT !.isLoading = TRUE]

\* set({ isLoading: true, error: null })
setLoading(st) == [st EXCEPT !.isLoading = TRUE, !.error = Null]

\* set({ auth: { user, isAuthenticated: true, ..., getUser: () => user }, isLoading: false })
setSignedIn(st, user) ==
    [st EXCEPT !.user = user,
               !.isAuthenticated = TRUE,
               !.getUser = [t |-> "() => user", user |-> user],
               !.isLoading = FALSE]

\* set({ auth: { user: null, isAuthenticated: false, ..., getUser: () => null }, isLoading: false })
setSignedOut(st) ==
    [st EXCEPT !.user = Null,
               !.isAuthenticated = FALSE,
               !.getUser = [t |-> "() => user", user |-> Null],
               !.isLoading = FALSE]

\* auth.getUser()
getUser(st) == IF st.getUser.t = "get().auth.user" THEN st.user ELSE st.getUser.user

\* what the operation resolves with when the checkAuthStatus in it returns `b`:
\* signIn awaits checkAuthStatus() and returns nothing
Returns(op, b) == IF op = "checkAuthStatus" THEN JBool(b) ELSE Undefined

\* checkAuthStatus() up to `await puter.auth.isSignedIn()`, called as operation `op`
\* (checkAuthStatus itself, or signIn, which awaits it): the store, the platform
\* calls and the operation afterwards
checkAuthStatusBegins(st, p, caller, op) ==
    IF ~p
    THEN [store |-> setError(st, NotAvailable), calls |-> {},
          call |-> [op |-> op, pc |-> "done", ret |-> Returns(op, FALSE), got |-> <<>>]]
    ELSE [store |-> setLoading(st), calls |-> {Call(caller, "auth.isSignedIn", <<>>)},
          call |-> [op |-> op, pc |-> "isSignedIn", ret |-> Undefined, got |-> <<>>]]

\* checkAuthStatus(), called by the UI or by init (see init below)
checkAuthStatus(i) ==
    /\ UiIdle(i)
    /\ LET c == UiAuthCaller(i)
           b == checkAuthStatusBegins(store, getPuter, c, "checkAuthStatus")
       IN /\ store' = b.store
          /\ inflight' = inflight \cup b.calls
          /\ authCalls' = [authCalls EXCEPT ![c] = b.call]
          /\ uiCalls' = [uiCalls EXCEPT ![i] = FreeUiCall]
    /\ UNCHANGED <<puter, kvStore, nextUuid, runs, pages, inits>>

\* checkAuthStatus from the settling of isSignedIn() to `await puter.auth.getUser()`
\* or to its end
AfterIsSignedIn(c) ==
    /\ authCalls[c].pc = "isSignedIn"
    /\ \E a \in Awaited(c, "promise") :
        /\ kvStore' = a.kv
        /\ IF IsThrown(a.val)
           THEN /\ store' = setError(store, ErrorMessage(a.val, "Failed to check auth status"))
                /\ inflight' = a.infl
                /\ authCalls' = [authCalls EXCEPT ![c].pc = "done", ![c].ret = Returns(authCalls[c].op, FALSE),
                                                  ![c].got = Append(@, a.val)]
           ELSE IF ~Falsy(a.val)
           THEN /\ store' = store
                /\ inflight' = a.infl \cup {Call(c, "auth.getUser", <<>>)}
                /\ authCalls' = [authCalls EXCEPT ![c].pc = "getUser", ![c].got = Append(@, a.val)]
           ELSE /\ store' = setSignedOut(store)
                /\ inflight' = a.infl
                /\ authCalls' = [authCalls EXCEPT ![c].pc = "done", ![c].ret = Returns(authCalls[c].op, FALSE),
                                                  ![c].got = Append(@, a.val)]
    /\ UNCHANGED <<puter, nextUuid, runs, pages, uiCalls, inits>>

\* from the settling of getUser() to the end, in checkAuthStatus and in refreshUser
AfterGetUser(c) ==
    /\ authCalls[c].pc = "getUser"
    /\ \E a \in Awaited(c, "promise") :
        /\ kvStore' = a.kv
        /\ inflight' = a.infl
        /\ IF IsThrown(a.val)
           THEN /\ store' = setError(store, ErrorMessage(a.val,
                                IF authCalls[c].op = "refreshUser" THEN "Failed to refresh user"
                                ELSE "Failed to check auth status"))
                /\ authCalls' = [authCalls EXCEPT ![c].pc = "done", ![c].ret = Returns(authCalls[c].op, FALSE),
                                                  ![c].got = Append(@, a.val)]
           ELSE /\ store' = setSignedIn(store, a.val)
                /\ authCalls' = [authCalls EXCEPT ![c].pc = "done", ![c].ret = Returns(authCalls[c].op, TRUE),
                                                  ![c].got = Append(@, a.val)]
    /\ UNCHANGED <<puter, nextUuid, runs, pages, uiCalls, inits>>

\* an identity operation other than checkAuthStatus, up to its first await
IdentityBegins(st, p, caller, op, platformOp) ==
    IF ~p
    THEN [store |-> setError(st, NotAvailable), calls |-> {},
          call |-> [op |-> op, pc |-> "done", ret |-> Undefined, got |-> <<>>]]
    ELSE [store |-> setLoading(st), calls |-> {Call(caller, platformOp, <<>>)},
          call |-> [op |-> op, pc |-> platformOp, ret |-> Undefined, got |-> <<>>]]

\* signIn() up to `await puter.auth.signIn()`
signIn(i) ==
    /\ UiIdle(i)
    /\ LET c == UiAuthCaller(i)
           b == IdentityBegins(store, getPuter, c, "signIn", "auth.signIn")
       IN /\ store' = b.store
          /\ inflight' = inflight \cup b.calls
          /\ authCalls' = [authCalls EXCEPT ![c] = b.call]
          /\ uiCalls' = [uiCalls EXCEPT ![i] = FreeUiCall]
    /\ UNCHANGED <<puter, kvStore, nextUuid, runs, pages, inits>>

\* signIn from the settling of puter.auth.signIn() into `await checkAuthStatus()`
AfterPlatformSignIn(c) ==
    /\ authCalls[c].pc = "auth.signIn"
    /\ \E a \in Awaited(c, "promise") :
        /\ kvStore' = a.kv
        /\ IF IsThrown(a.val)
           THEN /\ store' = setError(store, ErrorMessage(a.val, "Sign in failed"))
                /\ inflight' = a.infl
                /\ authCalls' = [authCalls EXCEPT ![c].pc = "done", ![c].got = Append(@, a.val)]
           ELSE LET b == checkAuthStatusBegins(store, getPuter, c, "signIn")
                IN /\ store' = b.store
                   /\ inflight' = a.infl \cup b.calls
                   /\ authCalls' = [authCalls EXCEPT ![c] = b.call]
    /\ UNCHANGED <<puter, nextUuid, runs, pages, uiCalls, inits>>

\* signOut() up to `await puter.auth.signOut()`
signOut(i) ==
    /\ UiIdle(i)
    /\ LET c == UiAuthCaller(i)
           b == IdentityBegins(store, getPuter, c, "signOut", "auth.signOut")
       IN /\ store' = b.store
          /\ inflight' = inflight \cup b.calls
          /\ authCalls' = [authCalls EXCEPT ![c] = b.call]
          /\ uiCalls' = [uiCalls EXCEPT ![i] = FreeUiCall]
    /\ UNCHANGED <<puter, kvStore, nextUuid, runs, pages, inits>>

\* signOut from the settling of puter.auth.signOut() to the end
AfterPlatformSignOut(c) ==
    /\ authCalls[c].pc = "auth.signOut"
    /\ \E a \in Awaited(c, "promise") :
        /\ kvStore' = a.kv
        /\ inflight' = a.infl
        /\ store' = IF IsThrown(a.val)
                    THEN setError(store, ErrorMessage(a.val, "Sign out failed"))
                    ELSE setSignedOut(store)
        /\ authCalls' = [authCalls EXCEPT ![c].pc = "done", ![c].got = Append(@, a.val)]
    /\ UNCHANGED <<puter, nextUuid, runs, pages, uiCalls, inits>>

\* refreshUser() up to `await puter.auth.getUser()`
refreshUser(i) ==
    /\ UiIdle(i)
    /\ LET c == UiAuthCaller(i)
           b == IdentityBegins(store, getPuter, c, "refreshUser", "auth.getUser")
       IN /\ store' = b.store
          /\ inflight' = inflight \cup b.calls
          /\ authCalls' = [authCalls EXCEPT ![c] = [b.call EXCEPT !.pc = IF @ = "done" THEN @ ELSE "getUser"]]
          /\ uiCalls' = [uiCalls EXCEPT ![i] = FreeUiCall]
    /\ UNCHANGED <<puter, kvStore, nextUuid, runs, pages, inits>>

\* clearError: set({ error: null })
clearError ==
    /\ store.error # Null
    /\ store' = [store EXCEPT !.error = Null]
    /\ UNCHANGED <<puter, inflight, kvStore, nextUuid, runs, pages, authCalls, uiCalls, inits>>

\* ------------------------------------------------------------- init: the readiness handshake
NoInit == [called |-> FALSE, interval |-> "none", timer |-> "none",
           ticks |-> 0, ready |-> 0, checks |-> 0, loadErrors |-> 0]

\* set({ puterReady: true }); checkAuthStatus();   (in init and in the interval's callback)
\* the store, the platform calls and the identity operation afterwards
becomesReady(st, p, caller) ==
    checkAuthStatusBegins([st EXCEPT !.puterReady = TRUE], p, caller, "checkAuthStatus")

\* init(): h numbers the calls
init(h) ==
    /\ ~inits[h].called
    /\ h > 1 => inits[h - 1].called
    /\ IF getPuter
       THEN LET b == becomesReady(store, getPuter, <<"init", h>>)
            IN /\ store' = b.store
               /\ inflight' = inflight \cup b.calls
               /\ authCalls' = [authCalls EXCEPT ![<<"init", h>>] = b.call]
               /\ inits' = [inits EXCEPT ![h] = [@ EXCEPT !.called = TRUE, !.ready = 1, !.checks = 1]]
       ELSE /\ inits' = [inits EXCEPT ![h] = [@ EXCEPT !.called = TRUE, !.interval = "active",
                                                      !.timer = "pending"]]
            /\ UNCHANGED <<store, inflight, authCalls>>
    /\ UNCHANGED <<puter, kvStore, nextUuid, runs, pages, uiCalls>>

\* an interval callback that finds the handle and goes on polling
pollTick_keepsInterval(h) ==
    /\ inits[h].interval = "active"
    /\ inits[h].ticks < MaxTicks
    /\ IF getPuter
       THEN LET b == becomesReady(store, getPuter, <<"init", h>>)
            IN /\ store' = b.store
               /\ inflight' = inflight \cup b.calls
               /\ authCalls' = [authCalls EXCEPT ![<<"init", h>>] = b.call]
               /\ inits' = [inits EXCEPT ![h] = [@ EXCEPT !.ticks = @ + 1,
                                                      !.ready = @ + 1, !.checks = @ + 1]]
       ELSE /\ inits' = [inits EXCEPT ![h].ticks = @ + 1]
            /\ UNCHANGED <<store, inflight, authCalls>>
    /\ UNCHANGED <<puter, kvStore, nextUuid, runs, pages, uiCalls>>

\* the interval's callback, every 100 ms while the interval is not cleared
pollTick(h) ==
    /\ inits[h].interval = "active"
    /\ getPuter \/ inits[h].ticks < MaxTicks
    /\ IF getPuter
       THEN LET b == becomesReady(store, getPuter, <<"init", h>>)
            IN /\ store' = b.store
               /\ inflight' = inflight \cup b.calls
               /\ authCalls' = [authCalls EXCEPT ![<<"init", h>>] = b.call]
               /\ inits' = [inits EXCEPT ![h] = [@ EXCEPT !.interval = "cleared", !.ticks = @ + 1,
                                                      !.ready = @ + 1, !.checks = @ + 1]]
       ELSE /\ inits' = [inits EXCEPT ![h].ticks = @ + 1]
            /\ UNCHANGED <<store, inflight, authCalls>>
    /\ UNCHANGED <<puter, kvStore, nextUuid, runs, pages, uiCalls>>

\* the timer's callback, which forgets clearInterval(interval)
loadTimeout_keepsPolling(h) ==
    /\ inits[h].timer = "pending"
    /\ IF ~getPuter
       THEN /\ store' = setError(store, LoadFailed)
            /\ inits' = [inits EXCEPT ![h] = [@ EXCEPT !.timer = "fired", !.loadErrors = @ + 1]]
       ELSE /\ store' = store
            /\ inits' = [inits EXCEPT ![h] = [@ EXCEPT !.timer = "fired"]]
    /\ UNCHANGED <<puter, inflight, kvStore, nextUuid, runs, pages, authCalls, uiCalls>>

\* a timer callback that records the failure without looking for the handle
loadTimeout_unconditional(h) ==
    /\ inits[h].timer = "pending"
    /\ store' = setError(store, LoadFailed)
    /\ inits' = [inits EXCEPT ![h] = [@ EXCEPT !.timer = "fired", !.loadErrors = @ + 1,
                                           !.interval = "cleared"]]
    /\ UNCHANGED <<puter, inflight, kvStore, nextUuid, runs, pages, authCalls, uiCalls>>

\* the timer's callback, 10 s after init
loadTimeout(h) ==
    /\ inits[h].timer = "pending"
    /\ IF ~getPuter
       THEN /\ store' = setError(store, LoadFailed)
            /\ inits' = [inits EXCEPT ![h] = [@ EXCEPT !.timer = "fired", !.loadErrors = @ + 1,
                                                   !.interval = "cleared"]]
       ELSE /\ store' = store
            /\ inits' = [inits EXCEPT ![h] = [@ EXCEPT !.timer = "fired", !.interval = "cleared"]]
    /\ UNCHANGED <<puter, inflight, kvStore, nextUuid, runs, pages, authCalls, uiCalls>>

\* ------------------------------------------------------------- capability calls from the UI
WrapperOps == {"fs.write", "fs.readDir", "fs.read", "fs.upload", "fs.delete",
               "ai.chat", "ai.feedback", "ai.img2txt",
               "kv.get", "kv.set", "kv.delete", "kv.list", "kv.flush"}

SamplePath == <<"cv", "pdf">>
SampleRecord ==
    [ id |-> 1, resumePath |-> <<"cv", "pdf">>, imagePath |-> <<"cv", "png">>,
      companyName |-> "Acme", jobTitle |-> "Engineer", jobDescription |-> "Build things",
      feedback |-> JStr("") ]

\* the facade operation `op`, called with sample arguments
CallWrapper(op, st, p, caller) ==
    CASE op = "fs.write" -> write(st, p, caller, SamplePath, "text")
      [] op = "fs.readDir" -> readDir(st, p, caller, SamplePath)
      [] op = "fs.read" -> readFile(st, p, caller, SamplePath)
      [] op = "fs.upload" -> upload(st, p, caller, <<File(SamplePath)>>)
      [] op = "fs.delete" -> deleteFile(st, p, caller, SamplePath)
      [] op = "ai.chat" -> chat(st, p, caller, "prompt", Undefined, Undefined, Undefined)
      [] op = "ai.feedback" -> feedback(st, p, caller, SamplePath, prepareInstructions("Engineer", "Build things"))
      [] op = "ai.img2txt" -> img2txt(st, p, caller, File(<<"cv", "png">>), Undefined)
      [] op = "kv.get" -> getKV(st, p, caller, ResumeKey(1))
      [] op = "kv.set" -> setKV(st, p, caller, ResumeKey(1), JSONstringify(SampleRecord))
      [] op = "kv.delete" -> deleteKV(st, p, caller, ResumeKey(1))
      [] op = "kv.list" -> listKV(st, p, caller, <<"resume:", "*">>, Undefined)
      [] op = "kv.flush" -> flushKV(st, p, caller)

UiCaller(i) == <<"call", i>>
\* a component calls fs.*, ai.* or kv.* of the store: the wrapper runs to its return
facadeCall(i, op) ==
    /\ UiIdle(i)
    /\ LET w == CallWrapper(op, store, getPuter, UiCaller(i))
       IN /\ store' = w.store
          /\ inflight' = inflight \cup w.calls
          /\ uiCalls' = [uiCalls EXCEPT ![i] =
                [op |-> op, state |-> "pending", awaiting |-> w.ret, result |-> "none"]]
          /\ authCalls' = [authCalls EXCEPT ![UiAuthCaller(i)] = FreeAuthCall]
    /\ UNCHANGED <<puter, kvStore, nextUuid, runs, pages, inits>>

\* the promise the wrapper returned settles: with undefined when the handle was
\* absent, else as the platform's promise does (the wrappers have no try/catch)
facadeCallSettles(i) ==
    /\ uiCalls[i].state = "pending"
    /\ \E a \in Awaited(UiCaller(i), uiCalls[i].awaiting) :
        /\ kvStore' = a.kv
        /\ inflight' = a.infl
        /\ uiCalls' = [uiCalls EXCEPT ![i].op = "none",
                                      ![i].state = IF IsThrown(a.val) THEN "rejected" ELSE "resolved",
                                      ![i].awaiting = "none",
                                      ![i].result = IF a.val.t \in {"undefined", "throw"}
                                                    THEN a.val.t ELSE "value"]
    /\ UNCHANGED <<puter, store, nextUuid, runs, pages, authCalls, inits>>

\* ------------------------------------------------------------- the result page and loadResume
Pages == 1..MaxPages
\* the ids a result page can be opened with (the :id of the route)
PageIds == {1, 2}
PageCaller(p) == <<"page", p>>

\* an invocation of loadResume that has not started
NoLoad == [id |-> 0, pc |-> "idle", awaiting |-> "none", data |-> Undefined]

\* a freshly rendered result page: useState(''), useState(''), useState(null)
InitialPage ==
    [ id |-> 0,
      pc |-> "idle",
      awaiting |-> "none",
      data |-> Undefined,
      imageUrl |-> JStr(""),
      resumeUrl |-> JStr(""),
      feedback |-> Null,
      facadeCalls |-> <<>>,     \* every facade call of the page, in order
      effectRan |-> FALSE,      \* the redirect effect has run at least once
      seenLoading |-> TRUE,     \* isLoading as the redirect effect last saw it
      navigated |-> Null,       \* where the page has navigated to
      earlier |-> NoLoad ]      \* the loadResume started for the id the route had before

\* a key made from the id's neighbour
LoadKey_offByOne(id) == <<"resume:", id + 1>>
\* `resume:${id}`
LoadKey(id) == <<"resume:", id>>

\* URL.createObjectURL(blob)
createObjectURL(blob) == [t |-> "url", blob |-> blob.of]

\* the page suspends on the promise of a facade call
AwaitRead(page, w, op, pc) ==
    [page EXCEPT !.pc = pc, !.awaiting = w.ret, !.facadeCalls = Append(@, op)]

\* the effect of the page: loadResume() up to `await kv.get(...)`
loadResume(p, id) ==
    /\ pages[p].pc = "idle"
    /\ LET w == getKV(store, getPuter, PageCaller(p), LoadKey(id))
       IN /\ pages' = [pages EXCEPT ![p] = AwaitRead([@ EXCEPT !.id = id], w, "kv.get", "get")]
          /\ store' = w.store
          /\ inflight' = inflight \cup w.calls
    /\ UNCHANGED <<puter, kvStore, nextUuid, runs, authCalls, uiCalls, inits>>

\* from the settling of kv.get to `await fs.read(data.resumePath)`
AfterKvGet(p) ==
    /\ pages[p].pc = "get"
    /\ \E a \in Awaited(PageCaller(p), pages[p].awaiting) :
        /\ kvStore' = a.kv
        /\ IF IsThrown(a.val)
           THEN /\ pages' = [pages EXCEPT ![p].pc = "threw", ![p].awaiting = "none"]
                /\ store' = store
                /\ inflight' = a.infl
           ELSE IF Falsy(a.val)
           THEN /\ pages' = [pages EXCEPT ![p].pc = "returned", ![p].awaiting = "none"]
                /\ store' = store
                /\ inflight' = a.infl
           ELSE LET data == JSONparse(a.val.text)
                    w == readFile(store, getPuter, PageCaller(p), data.resumePath)
                IN /\ pages' = [pages EXCEPT ![p] = AwaitRead([@ EXCEPT !.data = data], w, "fs.read", "readResume")]
                   /\ store' = w.store
                   /\ inflight' = a.infl \cup w.calls
    /\ UNCHANGED <<puter, nextUuid, runs, authCalls, uiCalls, inits>>

\* from the settling of fs.read(data.resumePath) to `await fs.read(data.imagePath)`
AfterReadResume(p) ==
    /\ pages[p].pc = "readResume"
    /\ \E a \in Awaited(PageCaller(p), pages[p].awaiting) :
        /\ kvStore' = a.kv
        /\ IF IsThrown(a.val)
           THEN /\ pages' = [pages EXCEPT ![p].pc = "threw", ![p].awaiting = "none"]
                /\ store' = store
                /\ inflight' = a.infl
           ELSE IF Falsy(a.val)
           THEN /\ pages' = [pages EXCEPT ![p].pc = "returned", ![p].awaiting = "none"]
                /\ store' = store
                /\ inflight' = a.infl
           ELSE LET w == readFile(store, getPuter, PageCaller(p), pages[p].data.imagePath)
                    shown == [pages[p] EXCEPT !.resumeUrl = createObjectURL(a.val)]
                IN /\ pages' = [pages EXCEPT ![p] = AwaitRead(shown, w, "fs.read", "readImage")]
                   /\ store' = w.store
                   /\ inflight' = a.infl \cup w.calls
    /\ UNCHANGED <<puter, nextUuid, runs, authCalls, uiCalls, inits>>

\* from the settling of fs.read(data.imagePath) to the end
AfterReadImage(p) ==
    /\ pages[p].pc = "readImage"
    /\ \E a \in Awaited(PageCaller(p), pages[p].awaiting) :
        /\ kvStore' = a.kv
        /\ inflight' = a.infl
        /\ IF IsThrown(a.val)
           THEN pages' = [pages EXCEPT ![p].pc = "threw", ![p].awaiting = "none"]
           ELSE IF Falsy(a.val)
           THEN pages' = [pages EXCEPT ![p].pc = "returned", ![p].awaiting = "none"]
           ELSE pages' = [pages EXCEPT ![p].pc = "returned", ![p].awaiting = "none",
                                       ![p].imageUrl = createObjectURL(a.val),
                                       ![p].feedback = pages[p].data.feedback]
    /\ UNCHANGED <<puter, store, nextUuid, runs, authCalls, uiCalls, inits>>

\* the loadResume of a page that was started for the route's earlier id
EarlierCaller(p) == <<"page", p, "earlier">>

\* the route's id changes while the page is shown: the effect with [id] runs again and
\* starts loadResume for the new id; the invocation started before goes on
routeChanges(p, id) ==
    /\ pages[p].pc # "idle"
    /\ pages[p].earlier = NoLoad
    /\ id # pages[p].id
    /\ LET w == getKV(store, getPuter, PageCaller(p), LoadKey(id))
           before == [id |-> pages[p].id, pc |-> pages[p].pc,
                      awaiting |-> pages[p].awaiting, data |-> pages[p].data]
           fresh == [pages[p] EXCEPT !.id = id, !.data = Undefined, !.earlier = before]
       IN /\ pages' = [pages EXCEPT ![p] = AwaitRead(fresh, w, "kv.get", "get")]
          /\ store' = w.store
          /\ inflight' = {IF c.caller = PageCaller(p) THEN [c EXCEPT !.caller = EarlierCaller(p)]
                                                      ELSE c : c \in inflight} \cup w.calls
    /\ UNCHANGED <<puter, kvStore, nextUuid, runs, authCalls, uiCalls, inits>>

\* the earlier invocation: from the settling of kv.get to `await fs.read(data.resumePath)`
EarlierAfterKvGet(p) ==
    /\ pages[p].earlier.pc = "get"
    /\ \E a \in Awaited(EarlierCaller(p), pages[p].earlier.awaiting) :
        /\ kvStore' = a.kv
        /\ IF IsThrown(a.val)
           THEN /\ pages' = [pages EXCEPT ![p].earlier.pc = "threw", ![p].earlier.awaiting = "none"]
                /\ store' = store
                /\ inflight' = a.infl
           ELSE IF Falsy(a.val)
           THEN /\ pages' = [pages EXCEPT ![p].earlier.pc = "returned", ![p].earlier.awaiting = "none"]
                /\ store' = store
                /\ inflight' = a.infl
           ELSE LET data == JSONparse(a.val.text)
                    w == readFile(store, getPuter, EarlierCaller(p), data.resumePath)
                IN /\ pages' = [pages EXCEPT ![p].earlier.data = data,
                                             ![p].earlier.pc = "readResume",
                                             ![p].earlier.awaiting = w.ret,
                                             ![p].facadeCalls = Append(@, "fs.read")]
                   /\ store' = w.store
                   /\ inflight' = a.infl \cup w.calls
    /\ UNCHANGED <<puter, nextUuid, runs, authCalls, uiCalls, inits>>

\* the earlier invocation: from the settling of fs.read(data.resumePath) to
\* `await fs.read(data.imagePath)`
EarlierAfterReadResume(p) ==
    /\ pages[p].earlier.pc = "readResume"
    /\ \E a \in Awaited(EarlierCaller(p), pages[p].earlier.awaiting) :
        /\ kvStore' = a.kv
        /\ IF IsThrown(a.val)
           THEN /\ pages' = [pages EXCEPT ![p].earlier.pc = "threw", ![p].earlier.awaiting = "none"]
                /\ store' = store
                /\ inflight' = a.infl
           ELSE IF Falsy(a.val)
           THEN /\ pages' = [pages EXCEPT ![p].earlier.pc = "returned", ![p].earlier.awaiting = "none"]
                /\ store' = store
                /\ inflight' = a.infl
           ELSE LET w == readFile(store, getPuter, EarlierCaller(p), pages[p].earlier.data.imagePath)
                IN /\ pages' = [pages EXCEPT ![p].resumeUrl = createObjectURL(a.val),
                                             ![p].earlier.pc = "readImage",
                                             ![p].earlier.awaiting = w.ret,
                                             ![p].facadeCalls = Append(@, "fs.read")]
                   /\ store' = w.store
                   /\ inflight' = a.infl \cup w.calls
    /\ UNCHANGED <<puter, nextUuid, runs, authCalls, uiCalls, inits>>

\* the earlier invocation: from the settling of fs.read(data.imagePath) to the end
EarlierAfterReadImage(p) ==
    /\ pages[p].earlier.pc = "readImage"
    /\ \E a \in Awaited(EarlierCaller(p), pages[p].earlier.awaiting) :
        /\ kvStore' = a.kv
        /\ inflight' = a.infl
        /\ IF IsThrown(a.val)
           THEN pages' = [pages EXCEPT ![p].earlier.pc = "threw", ![p].earlier.awaiting = "none"]
           ELSE IF Falsy(a.val)
           THEN pages' = [pages EXCEPT ![p].earlier.pc = "returned", ![p].earlier.awaiting = "none"]
           ELSE pages' = [pages EXCEPT ![p].earlier.pc = "returned", ![p].earlier.awaiting = "none",
                                       ![p].imageUrl = createObjectURL(a.val),
                                       ![p].feedback = pages[p].earlier.data.feedback]
    /\ UNCHANGED <<puter, store, nextUuid, runs, authCalls, uiCalls, inits>>

\* `/auth?next=/resume/${id}`
AuthPath(id) == [t |-> "path", to |-> "/auth?next=/resume/", id |-> id]

\* the router renders the page for /resume/:id
renderResume(p, id) ==
    /\ pages[p].id = 0
    /\ pages[p].pc = "idle"
    /\ pages' = [pages EXCEPT ![p].id = id]
    /\ UNCHANGED <<puter, store, inflight, kvStore, nextUuid, runs, authCalls, uiCalls, inits>>

\* useEffect(..., [isLoading]) is due: after the first render, and after a render in
\* which isLoading differs from the one before
EffectPending(p) ==
    /\ pages[p].id # 0
    /\ pages[p].navigated = Null
    /\ ~pages[p].effectRan \/ pages[p].seenLoading # store.isLoading

\* every due effect has run: the redirect effect, and on the first render the
\* loadResume effect after it
EffectsFlushed ==
    \A p \in Pages :
        /\ ~EffectPending(p)
        /\ ~(pages[p].effectRan /\ pages[p].pc = "idle")

\* the redirect effect of the page
authRedirectEffect(p) ==
    /\ EffectPending(p)
    /\ pages' = [pages EXCEPT ![p].effectRan = TRUE,
                              ![p].seenLoading = store.isLoading,
                              ![p].navigated = IF ~store.isLoading /\ ~store.isAuthenticated
                                               THEN AuthPath(pages[p].id) ELSE @]
    /\ UNCHANGED <<puter, store, inflight, kvStore, nextUuid, runs, authCalls, uiCalls, inits>>

\* the records a pipeline run leaves under its key: the provisional one and the final one
StoredRecords == {SampleRecord, [SampleRecord EXCEPT !.feedback = JSONparseText(FeedbackJson)]}
\* what the platform's key-value store can hold when a result page opens
StoredStores == {EmptyKv} \cup {KvPut(EmptyKv, ResumeKey(d.id), JSONstringify(d)) : d \in StoredRecords}

\* ------------------------------------------------------------- specifications
Init ==
    /\ puter \in BOOLEAN
    /\ store = InitialStore
    /\ inflight = {}
    /\ kvStore = EmptyKv
    /\ nextUuid = 1
    /\ runs = [r \in Runs |-> InitialRun]
    /\ authCalls = [c \in AuthCallers |-> FreeAuthCall]
    /\ uiCalls = [i \in UiCallers |-> FreeUiCall]
    /\ inits = [h \in 1..MaxInit |-> NoInit]
    /\ pages = [p \in Pages |-> InitialPage]

PipelineNext ==
    \/ PuterLoads
    \/ \E r \in Runs, f \in PdfFiles \cup {Null} : handleFileSelect(r, f)
    \/ \E r \in Runs, form \in Forms : handleSubmit(r, form)
    \/ \E r \in Runs : AfterUpload(r)
    \/ \E r \in Runs : AfterConvert(r)
    \/ \E r \in Runs : AfterUploadImage(r)
    \/ \E r \in Runs : AfterProvisionalSet(r)
    \/ \E r \in Runs : AfterFeedback(r)
    \/ \E r \in Runs : AfterFinalSet(r)

\* the upload pages and their runs
PipelineSpec == Init /\ [][PipelineNext]_vars

\* the upload form as a user can drive it: drags, drops and submits
UploadFormNext ==
    \/ PuterLoads
    \/ \E r \in Runs : dragEnter(r)
    \/ \E r \in Runs : dragLeave(r)
    \/ \E r \in Runs, acceptedFiles \in Drops : dropFiles(r, acceptedFiles)
    \/ \E r \in Runs, form \in Forms : handleSubmit(r, form)
UploadFormSpec == Init /\ [][UploadFormNext]_vars

FacadeNext ==
    \/ PuterLoads
    \/ \E i \in UiCallers, op \in WrapperOps : facadeCall(i, op)
    \/ \E i \in UiCallers : facadeCallSettles(i)
    \/ \E i \in UiCallers : checkAuthStatus(i)
    \/ \E i \in UiCallers : signIn(i)
    \/ \E i \in UiCallers : signOut(i)
    \/ \E i \in UiCallers : refreshUser(i)
    \/ \E c \in UiAuthCallers : AfterIsSignedIn(c)
    \/ \E c \in UiAuthCallers : AfterGetUser(c)
    \/ \E c \in UiAuthCallers : AfterPlatformSignIn(c)
    \/ \E c \in UiAuthCallers : AfterPlatformSignOut(c)
    \/ clearError

\* the capability facade, called from the UI
FacadeSpec == Init /\ [][FacadeNext]_vars

HandshakeNext ==
    \/ PuterLoads
    \/ \E h \in 1..MaxInit : init(h)
    \/ \E h \in 1..MaxInit : pollTick(h)
    \/ \E h \in 1..MaxInit : loadTimeout(h)
    \/ \E c \in InitCallers : AfterIsSignedIn(c)
    \/ \E c \in InitCallers : AfterGetUser(c)

\* init and what it starts
HandshakeSpec == Init /\ [][HandshakeNext]_vars

\* the app: the root component calls init() once, and a component of the UI calls
\* the facade while the handshake and its identity check run
AppCaller == <<"init", 1>>
AppUi == 1
AppNext ==
    \/ PuterLoads
    \/ \E op \in WrapperOps : facadeCall(AppUi, op)
    \/ facadeCallSettles(AppUi)
    \/ checkAuthStatus(AppUi)
    \/ signIn(AppUi)
    \/ signOut(AppUi)
    \/ refreshUser(AppUi)
    \/ AfterIsSignedIn(UiAuthCaller(AppUi))
    \/ AfterGetUser(UiAuthCaller(AppUi))
    \/ AfterPlatformSignIn(UiAuthCaller(AppUi))
    \/ AfterPlatformSignOut(UiAuthCaller(AppUi))
    \/ clearError
    \/ init(1)
    \/ pollTick(1)
    \/ loadTimeout(1)
    \/ AfterIsSignedIn(AppCaller)
    \/ AfterGetUser(AppCaller)

\* the store with its one handshake and the UI's calls
AppSpec == Init /\ [][AppNext]_vars

\* a result page opens in a later session: the key-value store is the platform's and
\* holds what earlier pipeline runs stored
RetrievalInit ==
    /\ puter \in BOOLEAN
    /\ store = InitialStore
    /\ inflight = {}
    /\ kvStore \in StoredStores
    /\ nextUuid = 1
    /\ runs = [r \in Runs |-> InitialRun]
    /\ authCalls = [c \in AuthCallers |-> FreeAuthCall]
    /\ uiCalls = [i \in UiCallers |-> FreeUiCall]
    /\ inits = [h \in 1..MaxInit |-> NoInit]
    /\ pages = [p \in Pages |-> InitialPage]

RetrievalNext ==
    \/ PuterLoads
    \/ \E p \in Pages, id \in PageIds : loadResume(p, id)
    \/ \E p \in Pages : AfterKvGet(p)
    \/ \E p \in Pages : AfterReadResume(p)
    \/ \E p \in Pages : AfterReadImage(p)

\* the result pages
RetrievalSpec == RetrievalInit /\ [][RetrievalNext]_vars

\* a result page in the running app (signing in happens on the auth page): its
\* effects run after each render, before anything else happens
ResultNext ==
    \/ EffectsFlushed /\ PuterLoads
    \/ EffectsFlushed /\ init(1)
    \/ EffectsFlushed /\ pollTick(1)
    \/ EffectsFlushed /\ loadTimeout(1)
    \/ EffectsFlushed /\ AfterIsSignedIn(AppCaller)
    \/ EffectsFlushed /\ AfterGetUser(AppCaller)
    \/ EffectsFlushed /\ checkAuthStatus(AppUi)
    \/ EffectsFlushed /\ signOut(AppUi)
    \/ EffectsFlushed /\ refreshUser(AppUi)
    \/ EffectsFlushed /\ AfterIsSignedIn(UiAuthCaller(AppUi))
    \/ EffectsFlushed /\ AfterGetUser(UiAuthCaller(AppUi))
    \/ EffectsFlushed /\ AfterPlatformSignOut(UiAuthCaller(AppUi))
    \/ \E id \in PageIds : renderResume(1, id)
    \/ authRedirectEffect(1)
    \/ /\ pages[1].effectRan
       /\ loadResume(1, pages[1].id)
    \/ EffectsFlushed /\ AfterKvGet(1)
    \/ EffectsFlushed /\ AfterReadResume(1)
    \/ EffectsFlushed /\ AfterReadImage(1)
ResultSpec == RetrievalInit /\ [][ResultNext]_vars

\* a result page whose route changes from one id to another while its loadResume
\* is in flight
RouteNext ==
    \/ PuterLoads
    \/ \E id \in PageIds : loadResume(1, id)
    \/ AfterKvGet(1)
    \/ AfterReadResume(1)
    \/ AfterReadImage(1)
    \/ /\ pages[1].pc \in {"get", "readResume", "readImage"}
       /\ \E id \in PageIds : routeChanges(1, id)
    \/ EarlierAfterKvGet(1)
    \/ EarlierAfterReadResume(1)
    \/ EarlierAfterReadImage(1)
RouteSpec == RetrievalInit /\ [][RouteNext]_vars

\* ------------------------------------------------------------- the pipeline's properties
Ended(run) == run.pc \in {"returned", "threw"}

StatusOrder == <<StatusUploading, StatusConverting, StatusUploadingImage,
                 StatusPreparing, StatusAnalyzing, StatusComplete>>
ErrorStatuses == {ErrorUpload, ErrorConvert, ErrorUploadImage, ErrorAnalyze}

IsPrefix(s, t) == Len(s) <= Len(t) /\ \A i \in 1..Len(s) : s[i] = t[i]

StatusLogInOrder(log) ==
    \/ IsPrefix(log, StatusOrder)
    \/ /\ Len(log) >= 1
       /\ log[Len(log)] \in ErrorStatuses
       /\ IsPrefix(SubSeq(log, 1, Len(log) - 1), StatusOrder)

\* the result of stage k of the run is known and is a success
StageSucceeded(run, k) ==
    CASE k = 1 -> ~Falsy(run.uploadedFile)
      [] k = 2 -> run.imageFile.t = "PdfConversionResult" /\ ~Falsy(run.imageFile.file)
      [] k = 3 -> ~Falsy(run.uploadedImage)
      [] k = 4 -> Len(run.kvResults) >= 1 /\ run.kvResults[1] = JBool(TRUE)
      [] k = 5 -> ~Falsy(run.feedback)
      [] OTHER -> FALSE

InFlightOf(r) == {c \in inflight : c.caller = RunCaller(r)}

\* C1: in every run the statuses appear in the fixed order, possibly cut short by one
\* Error status; the call of a stage is dispatched only when the previous stage's
\* result is known and was a success; at most one call of the run is in flight.
C1_StagesInOrderAndGated ==
    \A r \in Runs :
        /\ StatusLogInOrder(runs[r].statusLog)
        /\ \A k \in 2..Len(runs[r].facadeCalls) : StageSucceeded(runs[r], k - 1)
        /\ Cardinality(InFlightOf(r)) <= 1

\* the run ended in stage k: that stage's result is known and is no success
\* (an absent result or a rejected call), the stages before it having succeeded
FailedInStage(run, k) ==
    /\ Ended(run)
    /\ \A j \in 1..(k - 1) : StageSucceeded(run, j)
    /\ ~StageSucceeded(run, k)

\* C2: a run in which the source upload, the conversion or the preview upload failed
\* has made no key-value set, has generated no id, and no entry of the key-value
\* store is under a key of that run.
C2_NoWriteWhenEarlyStageFails ==
    \A r \in Runs :
        (\E k \in 1..3 : FailedInStage(runs[r], k)) =>
            /\ \A i \in 1..Len(runs[r].facadeCalls) : runs[r].facadeCalls[i] # "kv.set"
            /\ runs[r].uuid = 0
            /\ \A key \in DOMAIN kvStore : JSONparse(kvStore[key]).id # runs[r].uuid

\* a run whose conversion produced no artifact has ended, while the key-value store
\* holds the record of another run
C2_Witness ==
    \E r \in Runs :
        /\ FailedInStage(runs[r], 2)
        /\ runs[r].statusText = ErrorConvert
        /\ DOMAIN kvStore # {}

ReachedComplete(run) == run.statusText = StatusComplete /\ run.navigated = <<"/resume/", run.uuid>>

\* the entries of the key-value store whose record carries this id
EntriesOf(uuid) == {key \in DOMAIN kvStore : JSONparse(kvStore[key]).id = uuid}

\* C3: when a run has reached Complete, the key-value store holds exactly one entry
\* for its id, under the run's key, and the feedback of that entry is populated.
C3_CompleteImpliesStoredFeedback ==
    \A r \in Runs :
        ReachedComplete(runs[r]) =>
            /\ EntriesOf(runs[r].uuid) = {ResumeKey(runs[r].uuid)}
            /\ ~Falsy(JSONparse(kvStore[ResumeKey(runs[r].uuid)]).feedback)

\* the first kv.set of the run failed: it resolved with an absent result, or rejected
ProvisionalWriteFailed(run) ==
    \/ Len(run.kvResults) >= 1 /\ Falsy(run.kvResults[1])
    \/ run.pc = "threw" /\ run.statusText = StatusPreparing

\* C4: when the provisional write failed, ai.feedback is not invoked in that run.
C4_NoAnalysisAfterFailedProvisionalWrite ==
    \A r \in Runs :
        ProvisionalWriteFailed(runs[r]) =>
            \A i \in 1..Len(runs[r].facadeCalls) : runs[r].facadeCalls[i] # "ai.feedback"

\* the run ended in the analysis stage or in the extract-and-persist stage, its
\* provisional write having succeeded
FailedAfterProvisionalWrite(run) ==
    /\ Ended(run)
    /\ StageSucceeded(run, 4)
    /\ ~ReachedComplete(run)

\* C5: after such a failure the entry under the run's key is the provisional record,
\* its feedback empty (no later write of the run, or of another run, replaced it).
C5_ProvisionalRecordKept ==
    \A r \in Runs :
        FailedAfterProvisionalWrite(runs[r]) =>
            /\ KvHas(kvStore, ResumeKey(runs[r].uuid))
            /\ kvStore[ResumeKey(runs[r].uuid)] = JSONstringify(NewData(runs[r], runs[r].uuid))
            /\ JSONparse(kvStore[ResumeKey(runs[r].uuid)]).feedback = JStr("")

\* one run stopped on a feedback text that does not parse, its provisional record
\* stored, and another run has completed and stored its final record
C5_Witness ==
    \E r, q \in Runs :
        /\ FailedAfterProvisionalWrite(runs[r])
        /\ runs[r].pc = "threw"
        /\ ~Falsy(runs[r].feedback)
        /\ ReachedComplete(runs[q])
        /\ StageSucceeded(runs[q], 4)
        /\ Len(runs[q].kvResults) = 2 /\ runs[q].kvResults[2] = JBool(TRUE)

TerminalStatuses == {StatusComplete} \cup ErrorStatuses

\* C6: a run whose calls have all settled and whose handler has ended shows a
\* terminal status, Complete or Error, however a stage failed.
C6_EndedRunShowsTerminalStatus ==
    \A r \in Runs : Ended(runs[r]) => runs[r].statusText \in TerminalStatuses


\* ------------------------------------------------------------- the facade's properties
\* C7: no blob, inference or key-value operation of the facade raises to its caller:
\* the promise it returned never rejects.
C7_FacadeCallsNeverReject ==
    \A i \in UiCallers : uiCalls[i].state # "rejected"

\* a step in which a UI caller calls a facade operation
CallsFacade(i) ==
    \/ \E op \in WrapperOps : facadeCall(i, op)
    \/ checkAuthStatus(i)
    \/ signIn(i)
    \/ signOut(i)
    \/ refreshUser(i)

\* the store after a call that found no handle
PlatformUnavailableRecorded(st) ==
    /\ st.error = JStr(NotAvailable)
    /\ ~st.isLoading
    /\ ~st.isAuthenticated
    /\ st.user = Null

\* C8: with the platform handle absent, a call of any facade operation issues no
\* platform call, leaves 'Puter.js not available' in error with isLoading false and
\* the session signed-out, and its promise resolves (it does not reject) with an
\* absent or false value.
C8_AbsentHandleFailsFast ==
    [][ \A i \in UiCallers :
          /\ (~puter /\ CallsFacade(i)) =>
                /\ inflight' = inflight
                /\ PlatformUnavailableRecorded(store')
                /\ uiCalls'[i].state = "pending" => uiCalls'[i].awaiting = "undefined"
                /\ uiCalls'[i].state # "pending" =>
                       /\ authCalls'[UiAuthCaller(i)].pc = "done"
                       /\ Falsy(authCalls'[UiAuthCaller(i)].ret)
          /\ (~puter /\ facadeCallSettles(i)) =>
                /\ uiCalls'[i].state = "resolved"
                /\ uiCalls'[i].result = "undefined"
      ]_vars

\* a wrapper called with no handle has resolved with undefined, the error recorded
C8_Witness ==
    /\ ~puter
    /\ PlatformUnavailableRecorded(store)
    /\ \E i \in UiCallers : uiCalls[i].state = "resolved" /\ uiCalls[i].result = "undefined"

\* ------------------------------------------------------------- the handshake's properties
\* C9: while the handle has not appeared, a handshake whose timer has fired has
\* recorded the load failure once (and none has before its timer fires), puterReady
\* is false and its interval is cleared; no tick of it runs after its timer fired.
C9_LoadFailureOncePerHandshake ==
    /\ [](\A h \in 1..MaxInit :
            ~puter =>
               /\ inits[h].timer = "fired" =>
                     /\ inits[h].loadErrors = 1
                     /\ store.error = JStr(LoadFailed)
                     /\ inits[h].interval = "cleared"
               /\ inits[h].timer # "fired" => inits[h].loadErrors = 0
               /\ ~store.puterReady)
    /\ [][\A h \in 1..MaxInit : inits[h].timer = "fired" => inits'[h].ticks = inits[h].ticks]_vars

\* a handshake polled, found nothing, and timed out
C9_Witness ==
    \E h \in 1..MaxInit :
        /\ ~puter
        /\ inits[h].timer = "fired"
        /\ inits[h].ticks >= 1
        /\ inits[h].loadErrors = 1

\* C10: over all calls of init, at most one interval and one timer are created,
\* puterReady is set at most once and at most one identity check is issued.
C10_OneHandshakePerProcess ==
    /\ Cardinality({h \in 1..MaxInit : inits[h].interval # "none"}) <= 1
    /\ Cardinality({h \in 1..MaxInit : inits[h].timer # "none"}) <= 1
    /\ Cardinality({h \in 1..MaxInit : inits[h].ready > 0}) <= 1
    /\ Cardinality({h \in 1..MaxInit : inits[h].checks > 0}) <= 1


\* a step of handshake h that finds the handle present: init itself, or a poll tick
FindsHandle(h) == getPuter /\ (init(h) \/ pollTick(h))

\* C11: when init, or a poll tick of its interval, finds the handle present, the store
\* has puterReady true after the step, the interval of that handshake does not poll
\* any more, and one identity check of that handshake has been issued (its
\* isSignedIn call is in flight); a handshake never sets Ready or checks twice.
C11_ReadyStopsPollingAndChecksOnce ==
    /\ [][\A h \in 1..MaxInit :
            FindsHandle(h) =>
                /\ store'.puterReady
                /\ inits'[h].interval # "active"
                /\ inits'[h].ready = 1
                /\ inits'[h].checks = 1
                /\ Call(<<"init", h>>, "auth.isSignedIn", <<>>) \in inflight'
                /\ Call(<<"init", h>>, "auth.isSignedIn", <<>>) \notin inflight
         ]_vars
    /\ [](\A h \in 1..MaxInit : inits[h].ready <= 1 /\ inits[h].checks <= 1)

\* a handshake polled without finding the handle, then a tick found it: the store is
\* ready, the interval is cleared before the timer fired, the identity check has ended
C11_Witness ==
    \E h \in 1..MaxInit :
        /\ inits[h].ticks >= 2
        /\ inits[h].ready = 1
        /\ inits[h].checks = 1
        /\ inits[h].interval = "cleared"
        /\ inits[h].timer = "pending"
        /\ store.puterReady
        /\ authCalls[<<"init", h>>].pc = "done"

\* a step in which a signOut call of UI caller i settles
SignOutSettles(i) ==
    \/ ~getPuter /\ signOut(i)
    \/ AfterPlatformSignOut(UiAuthCaller(i))

\* C12: when a signOut call settles (the platform's sign-out resolved, it rejected,
\* or the handle was absent) the store has isAuthenticated false and user null.
C12_SignOutAlwaysClearsSession ==
    [][\A i \in UiCallers :
          SignOutSettles(i) => ~store'.isAuthenticated /\ store'.user = Null]_vars

\* a signOut of a signed-in session has settled on a rejected platform call
C12_Witness ==
    \E i \in UiCallers :
        LET a == authCalls[UiAuthCaller(i)] IN
        /\ a.op = "signOut" /\ a.pc = "done"
        /\ Len(a.got) = 1 /\ IsThrown(a.got[1])
        /\ store.getUser.t = "() => user" /\ store.getUser.user # Null
        /\ ~store.isAuthenticated /\ store.user = Null

\* no caller but i has ever called the store
RunsAlone(i) ==
    /\ \A j \in UiCallers \ {i} :
          authCalls[UiAuthCaller(j)].pc = "free" /\ uiCalls[j].state = "free"
    /\ \A h \in 1..MaxInit : ~inits[h].called

\* the checkAuthStatus call a has ended and none of its platform calls rejected
EndedWithoutRejection(a) ==
    /\ a.op = "checkAuthStatus" /\ a.pc = "done"
    /\ Len(a.got) >= 1
    /\ \A k \in 1..Len(a.got) : ~IsThrown(a.got[k])

\* C13: a checkAuthStatus that ran alone and saw no rejection leaves isAuthenticated
\* equal to what isSignedIn reported, user equal to the fetched identity when signed
\* in and null otherwise, isLoading false and error null, and returned isAuthenticated.
C13_CheckAuthStatusReflectsPlatform ==
    \A i \in UiCallers :
        LET a == authCalls[UiAuthCaller(i)] IN
        (EndedWithoutRejection(a) /\ RunsAlone(i)) =>
            /\ store.isAuthenticated = (a.got[1] = JBool(TRUE))
            /\ store.user = (IF a.got[1] = JBool(TRUE) THEN a.got[2] ELSE Null)
            /\ ~store.isLoading
            /\ store.error = Null
            /\ a.ret = JBool(store.isAuthenticated)

\* a check that found the session signed in was followed by one that found it not
\* signed in: no error is shown and the session is signed out
C13_Witness ==
    \E i \in UiCallers :
        LET a == authCalls[UiAuthCaller(i)] IN
        /\ EndedWithoutRejection(a) /\ RunsAlone(i)
        /\ a.got = <<JBool(FALSE)>>
        /\ store.getUser.t = "() => user"
        /\ store.error = Null /\ ~store.isAuthenticated


\* ------------------------------------------------------------- the pipeline's records
\* the run has called kv.set
HasWritten(run) == \E i \in 1..Len(run.facadeCalls) : run.facadeCalls[i] = "kv.set"

\* C14: a run that has called kv.set had both uploads return a non-absent result; the
\* record it built carries the two non-empty paths of those results; while the
\* provisional write is pending its feedback is '' and the platform call carries that
\* record; an entry of the run carries those paths, and '' as feedback until the
\* second set has resolved.
C14_ProvisionalRecordReferencesBothUploads ==
    \A r \in Runs :
        LET run == runs[r] IN
        HasWritten(run) =>
            /\ ~Falsy(run.uploadedFile) /\ ~Falsy(run.uploadedImage)
            /\ run.data.resumePath = run.uploadedFile.path /\ Len(run.data.resumePath) > 0
            /\ run.data.imagePath = run.uploadedImage.path /\ Len(run.data.imagePath) > 0
            /\ run.pc = "provisionalSet" =>
                  /\ run.data.feedback = JStr("")
                  /\ \A c \in InFlightOf(r) : c.op = "kv.set" /\ c.arg[2] = JSONstringify(run.data)
            /\ \A key \in EntriesOf(run.uuid) :
                  LET d == JSONparse(kvStore[key]) IN
                  /\ d.resumePath = run.uploadedFile.path
                  /\ d.imagePath = run.uploadedImage.path
                  /\ Len(run.kvResults) < 2 => d.feedback = JStr("")

\* the provisional record of a run is stored and the run awaits the analysis
C14_Witness ==
    \E r \in Runs :
        /\ runs[r].pc = "feedback"
        /\ runs[r].kvResults = <<JBool(TRUE)>>
        /\ EntriesOf(runs[r].uuid) # {}
        /\ runs[r].uploadedFile.path # runs[r].uploadedImage.path

\* C15: a run generates its id once, before its first kv.set, and never changes it;
\* every kv.set of the run is under the key of that id and carries that id, the
\* navigation is to that id, and no two runs share an id or write under one key.
C15_OneIdOneKeyPerRun ==
    /\ [](\A r \in Runs :
            LET run == runs[r] IN
            /\ HasWritten(run) => run.uuid # 0
            /\ \A c \in InFlightOf(r) :
                  c.op = "kv.set" => c.arg[1] = <<"resume:", run.uuid>> /\ JSONparse(c.arg[2]).id = run.uuid
            /\ run.navigated \in {<<>>, <<"/resume/", run.uuid>>}
            /\ run.uuid # 0 =>
                  /\ \A q \in Runs \ {r} : runs[q].uuid # run.uuid
                  /\ \A key \in EntriesOf(run.uuid) : key = <<"resume:", run.uuid>>)
    /\ [](nextUuid = 1 + Cardinality({r \in Runs : runs[r].uuid # 0}))
    /\ [][\A r \in Runs : runs[r].uuid # 0 => runs'[r].uuid = runs[r].uuid]_vars

\* a run awaits its final write, its provisional record stored under the same key,
\* while another run has an id of its own
C15_Witness ==
    \E r, q \in Runs :
        /\ r # q
        /\ runs[r].pc = "finalSet"
        /\ \E c \in InFlightOf(r) : c.op = "kv.set"
        /\ KvHas(kvStore, <<"resume:", runs[r].uuid>>)
        /\ runs[q].uuid # 0

\* the entry under key k is the same before and after the step
EntryUntouched(k) ==
    /\ KvHas(kvStore', k) = KvHas(kvStore, k)
    /\ KvHas(kvStore, k) => kvStore'[k] = kvStore[k]

\* C16: a run that shows an Error status takes no further step: no call of it is in
\* flight or dispatched, it has not navigated, its status stays; a run that shows
\* Complete takes no further step either and the entry under its key stays as it is.
C16_TerminalRunsTakeNoStep ==
    [][\A r \in Runs :
          /\ runs[r].statusText \in ErrorStatuses =>
                /\ runs'[r] = runs[r]
                /\ runs[r].navigated = <<>>
                /\ \A c \in inflight \cup inflight' : c.caller # RunCaller(r)
          /\ runs[r].statusText = StatusComplete =>
                /\ runs'[r] = runs[r]
                /\ \A c \in inflight \cup inflight' : c.caller # RunCaller(r)
                /\ EntryUntouched(<<"resume:", runs[r].uuid>>)
      ]_vars

\* one run stopped on an absent analysis while another went on to Complete
C16_Witness ==
    \E r, q \in Runs :
        /\ runs[r].statusText = ErrorAnalyze
        /\ runs[r].uuid < runs[q].uuid
        /\ ReachedComplete(runs[q])

\* the number of calls a run has made when it fails in the stage of this message
StageOfError(text) ==
    CASE text = ErrorUpload -> 1
      [] text = ErrorConvert -> 2
      [] text = ErrorUploadImage -> 3
      [] text = ErrorAnalyze -> 5

\* C17: each Error message appears only when its own stage returned absent: the run
\* returned with exactly the calls up to that stage made, the results before it
\* successes and the result of that stage absent (not rejected).
C17_ErrorMessageNamesFailedStage ==
    \A r \in Runs :
        LET run == runs[r] IN
        /\ run.statusText \in ErrorStatuses =>
              /\ run.pc = "returned"
              /\ Len(run.facadeCalls) = StageOfError(run.statusText)
        /\ run.statusText = ErrorUpload => run.uploadedFile = Undefined
        /\ run.statusText = ErrorConvert =>
              StageSucceeded(run, 1) /\ run.imageFile = ConversionResult(Null)
        /\ run.statusText = ErrorUploadImage =>
              StageSucceeded(run, 1) /\ StageSucceeded(run, 2) /\ run.uploadedImage = Undefined
        /\ run.statusText = ErrorAnalyze =>
              /\ \A k \in 1..3 : StageSucceeded(run, k)
              /\ run.feedback = Undefined
        /\ (run.pc = "returned" /\ Len(run.facadeCalls) < 6) => run.statusText \in ErrorStatuses

\* the preview upload of a run returned absent and the run shows that stage's message
C17_Witness ==
    \E r \in Runs :
        /\ runs[r].statusText = ErrorUploadImage
        /\ StageSucceeded(runs[r], 2)
        /\ runs[r].uploadedImage = Undefined

\* C18: the runs that reached Complete have distinct ids, and the key-value store
\* holds one entry for each of them, under its key and carrying its id.
C18_EachSuccessfulRunHasItsEntry ==
    LET done == {r \in Runs : ReachedComplete(runs[r])} IN
    /\ \A r, q \in done : r # q => runs[r].uuid # runs[q].uuid
    /\ \A r \in done :
          /\ KvHas(kvStore, ResumeKey(runs[r].uuid))
          /\ JSONparse(kvStore[ResumeKey(runs[r].uuid)]).id = runs[r].uuid
    /\ Cardinality(DOMAIN kvStore) >= Cardinality(done)

\* ------------------------------------------------------------- the result page's properties
ReadOps == {"kv.get", "fs.read"}

\* C19: loadResume only reads: the key-value store never changes, every call of a
\* page is a kv.get or an fs.read, its kv.get is for the key the pipeline writes for
\* the page's id, and a page whose id has no entry keeps its feedback and URLs.
C19_RetrievalOnlyReads ==
    /\ [][kvStore' = kvStore]_vars
    /\ [](\A c \in inflight : c.op \in ReadOps)
    /\ [](\A p \in Pages :
            /\ \A i \in 1..Len(pages[p].facadeCalls) : pages[p].facadeCalls[i] \in ReadOps
            /\ \A c \in inflight :
                  (c.caller = PageCaller(p) /\ c.op = "kv.get") => c.arg[1] = ResumeKey(pages[p].id)
            /\ (pages[p].id # 0 /\ ~KvHas(kvStore, ResumeKey(pages[p].id))) =>
                  /\ pages[p].feedback = Null
                  /\ pages[p].imageUrl = JStr("")
                  /\ pages[p].resumeUrl = JStr(""))

\* one page has shown the stored record of its id, another page found no entry
C19_Witness ==
    \E p, q \in Pages :
        /\ pages[p].pc = "returned" /\ pages[p].feedback # Null
        /\ pages[p].imageUrl # JStr("") /\ pages[p].resumeUrl # JStr("")
        /\ pages[q].pc = "returned" /\ pages[q].facadeCalls = <<"kv.get">>
        /\ ~KvHas(kvStore, ResumeKey(pages[q].id))
        /\ puter

\* ------------------------------------------------------------- the inference request
\* the platform call of feedback(path, message) made by `caller`
FeedbackRequest(caller, path, message) ==
    [ caller |-> caller,
      op |-> "ai.chat",
      arg |-> << << [ role |-> "user",
                      content |-> << [type |-> "file", puter_path |-> path],
                                     [type |-> "text", text |-> message] >> ] >>,
                 [model |-> "claude-3-7-sonnet"] >> ]

\* C20: a call of ai.feedback with the handle present adds one platform call, the
\* chat request with the path and the text in one user message and the fixed model;
\* with the handle absent it adds none; the settling of the call adds none.
C20_FeedbackIssuesOneChatCall ==
    [][\A i \in UiCallers :
          LET request == FeedbackRequest(UiCaller(i), SamplePath,
                                         prepareInstructions("Engineer", "Build things")) IN
          /\ facadeCall(i, "ai.feedback") =>
                IF getPuter
                THEN request \notin inflight /\ inflight' = inflight \cup {request}
                ELSE inflight' = inflight
          /\ facadeCallSettles(i) => inflight' \subseteq inflight
      ]_vars

\* an ai.feedback call is pending and its one chat request is in flight
C20_Witness ==
    \E i \in UiCallers :
        /\ uiCalls[i].op = "ai.feedback" /\ uiCalls[i].state = "pending"
        /\ \E c \in inflight : c.caller = UiCaller(i) /\ c.op = "ai.chat" /\ Len(c.arg) = 2


\* ------------------------------------------------------------- the store's flags
\* an identity operation of this caller is suspended on an await
IdentityPending(c) == authCalls[c].pc \notin {"free", "done"}

\* some facade call waits for a promise of the platform
FacadeCallInFlight ==
    \/ \E c \in AuthCallers : IdentityPending(c)
    \/ \E i \in UiCallers : uiCalls[i].state = "pending" /\ uiCalls[i].awaiting = "promise"

\* init was called, its polling and its timer are over and its identity check has ended
HandshakeEnded ==
    /\ inits[1].called
    /\ inits[1].interval # "active"
    /\ inits[1].timer # "pending"
    /\ ~IdentityPending(AppCaller)

\* C21: once the handshake has ended, isLoading is true exactly when a facade call
\* (identity, blob store, inference or key-value) is in flight.
C21_IsLoadingTracksCallsInFlight ==
    HandshakeEnded => (store.isLoading <=> FacadeCallInFlight)

\* C22: puterReady true and the load-failure error never hold together; once
\* puterReady is true it stays true, no handshake records the load failure, and a
\* timer that fires leaves the store as it is.
C22_NoLoadFailureAfterReady ==
    /\ [](~(store.puterReady /\ store.error = JStr(LoadFailed)))
    /\ [][store.puterReady =>
            /\ store'.puterReady
            /\ \A h \in 1..MaxInit :
                  /\ inits'[h].loadErrors = inits[h].loadErrors
                  /\ loadTimeout(h) => store' = store
         ]_vars

\* a poll tick found the handle, and the timer of that handshake fired afterwards
C22_Witness ==
    \E h \in 1..MaxInit :
        /\ store.puterReady
        /\ inits[h].ticks >= 1 /\ inits[h].ready = 1
        /\ inits[h].timer = "fired"
        /\ inits[h].loadErrors = 0

\* a step of the UI caller: it calls a facade operation, or one of its calls goes on
UiStep(i) ==
    \/ CallsFacade(i)
    \/ facadeCallSettles(i)
    \/ AfterIsSignedIn(UiAuthCaller(i))
    \/ AfterGetUser(UiAuthCaller(i))
    \/ AfterPlatformSignIn(UiAuthCaller(i))
    \/ AfterPlatformSignOut(UiAuthCaller(i))

\* C23: no step of a capability call, failing or not, changes puterReady or the
\* interval and timer of the handshake; puterReady, once true, stays true.
C23_CallFailuresLeaveHandshakeAlone ==
    [][ /\ store.puterReady => store'.puterReady
        /\ UiStep(AppUi) => (store'.puterReady = store.puterReady /\ inits' = inits)
        /\ (AfterIsSignedIn(AppCaller) \/ AfterGetUser(AppCaller)) =>
              (store'.puterReady = store.puterReady /\ inits' = inits)
      ]_vars

\* the store is ready, polling has stopped, and a capability call has failed since
C23_Witness ==
    /\ store.puterReady
    /\ inits[1].interval = "cleared"
    /\ store.error # Null
    /\ uiCalls[AppUi].state = "rejected" \/ authCalls[UiAuthCaller(AppUi)].pc = "done"

\* C24: auth.getUser() returns auth.user in every state of the store.
C24_GetUserReturnsCurrentUser ==
    getUser(store) = store.user

\* C26: a handshake whose interval is cleared has left the store decided: puterReady
\* is true, or that handshake has recorded the load failure.
C26_StoppedPollingMeansDecided ==
    \A h \in 1..MaxInit :
        inits[h].interval = "cleared" => (store.puterReady \/ inits[h].loadErrors >= 1)

\* C27: whenever error is not null the session is signed-out.
C27_ErrorImpliesSignedOut ==
    store.error # Null => (~store.isAuthenticated /\ store.user = Null)

\* C25: on a result page whose effects have run, isLoading false with a session that
\* is not authenticated means the page has navigated to /auth?next=/resume/<its id>.
C25_SignedOutPageHasRedirected ==
    \A p \in Pages :
        (/\ pages[p].effectRan
         /\ EffectsFlushed
         /\ ~store.isLoading
         /\ ~store.isAuthenticated) => pages[p].navigated = AuthPath(pages[p].id)

\* every loadResume the page started has ended
LoadsSettled(page) == Ended(page) /\ (page.earlier = NoLoad \/ Ended(page.earlier))

\* C28: when the route's id changed while a loadResume was in flight, then once every
\* load of the page has ended what the page shows belongs to the record stored under
\* its current id: with no such entry it shows the initial feedback and URLs, with an
\* entry each shown value is the initial one or the entry's.
C28_SettledPageShowsCurrentId ==
    \A p \in Pages :
        (pages[p].earlier # NoLoad /\ LoadsSettled(pages[p])) =>
            LET k == ResumeKey(pages[p].id) IN
            IF ~KvHas(kvStore, k)
            THEN /\ pages[p].feedback = Null
                 /\ pages[p].imageUrl = JStr("")
                 /\ pages[p].resumeUrl = JStr("")
            ELSE LET d == JSONparse(kvStore[k]) IN
                 /\ pages[p].feedback \in {Null, d.feedback}
                 /\ pages[p].imageUrl \in {JStr(""), createObjectURL(Blob(d.imagePath))}
                 /\ pages[p].resumeUrl \in {JStr(""), createObjectURL(Blob(d.resumePath))}

\* C29: a run is in progress only with a file selected, and after a drop with
\* accepted files the page's selected file is the first of them.
C29_DropSelectsFirstAcceptedFile ==
    \A r \in Runs :
        /\ runs[r].isProcessing => ~Falsy(runs[r].file)
        /\ runs[r].dropped # <<>> => runs[r].file = runs[r].dropped[1]

====
